---- MODULE Spec2Model ----
(***************************************************************************)
(* The animation clock of UnifiedAnimationController (unified-animation.js *)
(* and its non-instrumented twin), the frame driver that calls animate,    *)
(* the position worker it posts sampling requests to, and the application  *)
(* glue (processData, AppState.animation) that loads tracks into it.       *)
(*                                                                         *)
(* Units.  Track timestamps, performance.now() and frame timestamps are    *)
(* milliseconds.  The source keeps state.currentTime and state.duration in *)
(* seconds, obtained by /1000 and turned back by *1000.  The model keeps   *)
(* both as the exact number of thousandths of a second (fixed point with   *)
(* denominator 1000), so currentTime here is 1000 * state.currentTime.     *)
(* The controller reads performance.now() and the frame timestamp only     *)
(* through their difference to state.lastFrameTime; the model keeps that   *)
(* difference, sinceFrame.                                                 *)
(* state.speed is kept as the number itself.  The interpolation factor t   *)
(* is an exact fraction [num, den]; den = 0 stands for a division by zero. *)
(*                                                                         *)
(* Five specifications.  Spec follows the controller, with the worker as   *)
(* the queue of its requests and responses.  WorkerSpec follows the        *)
(* worker's state record through the messages it processes, CallSpec the   *)
(* pure functions of the sampler and of the bearing arithmetic one call at *)
(* a time; both draw the arguments from bounded sets and leave the         *)
(* controller as constructed.  MonitorSpec follows the PerformanceMonitor  *)
(* (performance-monitor.js) through its frame callbacks, CameraSpec the    *)
(* CameraController (camera-control.js) through speed changes and lock     *)
(* toggles.  LiveSpec is Spec with the frame callbacks, the passing of     *)
(* time and the worker's messages delivered fairly.                        *)
(***************************************************************************)
EXTENDS Integers, Sequences, FiniteSets, TLC

VARIABLES
    isPlaying,      \* state.isPlaying
    currentTime,    \* state.currentTime (thousandths of a second)
    duration,       \* state.duration (thousandths of a second)
    speed,          \* state.speed
    sinceFrame,     \* performance.now() - state.lastFrameTime (ms)
    features,       \* trackData.features
    timeRange,      \* trackData.timeRange
    frameId,        \* this.frameId, 0 for null
    workerAlive,    \* this.positionWorker is not null
    isLocked,       \* camera.isLocked
    appAnimation,   \* window.AppState.animation
    rafPending,     \* frame callbacks requested and neither fired nor cancelled
    toWorker,       \* messages posted to the worker, not yet processed
    fromWorker,     \* responses posted by the worker, not yet handled
    estimator,      \* `state` of the position worker
    monitor,        \* the PerformanceMonitor: metrics and state
    monitorLog,     \* history: the evaluations of the monitor, oldest first
    cameraController, \* the CameraController of camera-control.js
    lastOp          \* history: the operation that produced this state

vars == <<isPlaying, currentTime, duration, speed, sinceFrame, features,
          timeRange, frameId, workerAlive, isLocked, appAnimation, rafPending,
          toWorker, fromWorker, estimator, monitor, monitorLog,
          cameraController, lastOp>>

---------------------------------------------------------------------------
(* Bounds of the model *)

\* the longest time between two frames, or between play() and a frame (ms)
MaxGap == 1

\* requests and responses in flight between controller and worker
MaxInFlight == 2

---------------------------------------------------------------------------
(* Inputs *)

Min(a, b) == IF a <= b THEN a ELSE b

Max(a, b) == IF a >= b THEN a ELSE b

SetMin(S) == CHOOSE x \in S : \A y \in S : x <= y

SetMax(S) == CHOOSE x \in S : \A y \in S : x >= y

Feature(ts, lng, lat, b) ==
    [timestamp |-> ts, coordinates |-> <<lng, lat>>, bearing |-> b]

\* data handed to processData / setTrackData
Data(fs) == [present |-> TRUE, features |-> fs]

NoData == [present |-> FALSE, features |-> <<>>]

TrackA == <<Feature(0, 0, 0, 0), Feature(1, 1, 0, 90), Feature(3, 1, 2, 350)>>

TrackOne == <<Feature(2, 7, 7, 45)>>

\* out of order, with a repeated timestamp
TrackUnsorted ==
    <<Feature(2, 3, 3, 0), Feature(0, 4, 4, 180), Feature(0, 4, 5, 200)>>

DataInputs ==
    {NoData, Data(<<>>), Data(TrackA), Data(TrackOne), Data(TrackUnsorted)}

\* values passed to setSpeed
Speeds == {-1, 0, 1}

\* values passed to seekTo (thousandths of a second)
SeekTimes == {-1, 2, 4}

---------------------------------------------------------------------------
(* Track sampling: updatePosition *)

Timestamps(feats) == {feats[i].timestamp : i \in 1 .. Len(feats)}

IsSorted(feats) ==
    \A i \in 1 .. Len(feats) - 1 : feats[i].timestamp <= feats[i + 1].timestamp

\* Array.prototype.findIndex(f => f.properties.timestamp > targetTime):
\* the 0-based index of the first match, -1 when there is none
FindIndex(feats, targetTime) ==
    LET hits == {i \in 1 .. Len(feats) : feats[i].timestamp > targetTime}
    IN  IF hits = {} THEN -1 ELSE SetMin(hits) - 1

Zero == [num |-> 0, den |-> 1]

InterpolationFactorUnguarded(prevTime, nextTime, targetTime) ==
    [num |-> targetTime - prevTime, den |-> nextTime - prevTime]

\* t = prevTime === nextTime ? 0 : (targetTime - prevTime) / (nextTime - prevTime)
InterpolationFactor(prevTime, nextTime, targetTime) ==
    IF prevTime = nextTime
    THEN Zero
    ELSE [num |-> targetTime - prevTime, den |-> nextTime - prevTime]

NextIndexOrLast(found, length) == IF found = -1 THEN length - 1 ELSE found

\* if (nextIndex === -1) nextIndex = this.trackData.features.length
NextIndexOrLength(found, length) == IF found = -1 THEN length ELSE found

\* The bracket updatePosition(time) computes on a non-empty track; indexes are
\* 0-based as in the source.
Sample(feats, range, time) ==
    LET targetTime == range.start + time
        found == FindIndex(feats, targetTime)
        nextIndex == NextIndexOrLength(found, Len(feats))
        prevIndex == Max(0, nextIndex - 1)
        prev == feats[prevIndex + 1]
        next == IF nextIndex < Len(feats) THEN feats[nextIndex + 1] ELSE prev
    IN  [targetTime |-> targetTime,
         prevIndex |-> prevIndex,
         nextIndex |-> nextIndex,
         prev |-> prev,
         next |-> next,
         t |-> InterpolationFactor(prev.timestamp, next.timestamp, targetTime)]

\* The message updatePosition posts.  sample and stale are history fields: the
\* bracket the message was computed from, and whether a track was loaded after
\* it was sent.
Request(feats, range, time) ==
    LET s == Sample(feats, range, time)
    IN  [position |-> [lng |-> s.prev.coordinates[1],
                       lat |-> s.prev.coordinates[2],
                       bearing |-> s.prev.bearing,
                       t |-> s.t,
                       targetLng |-> s.next.coordinates[1],
                       targetLat |-> s.next.coordinates[2],
                       targetBearing |-> s.next.bearing],
         sample |-> [time |-> time, targetTime |-> s.targetTime,
                     prevIndex |-> s.prevIndex, nextIndex |-> s.nextIndex],
         stale |-> FALSE]

\* What a call of updatePosition does: nothing on an empty track, a TypeError
\* when the worker was terminated (positionWorker is null), a post otherwise.
UpdatePositionOutcome(feats, alive) ==
    IF Len(feats) = 0 THEN "skip"
    ELSE IF ~alive THEN "throw"
    ELSE "post"

InFlight == Len(toWorker) + Len(fromWorker)

\* the model's cap on the queue between controller and worker
CanPost(feats, alive) ==
    UpdatePositionOutcome(feats, alive) = "post" => InFlight < MaxInFlight

Posted(queue, feats, range, time, alive) ==
    IF UpdatePositionOutcome(feats, alive) = "post"
    THEN Append(queue, Request(feats, range, time))
    ELSE queue

---------------------------------------------------------------------------
(* Numbers of the worker: exact fractions [num, den] in lowest terms with   *)
(* den > 0; den = 0 stands for the result of a division by zero.            *)

Abs(n) == IF n < 0 THEN -n ELSE n

RECURSIVE GCD(_, _)
GCD(a, b) == IF b = 0 THEN a ELSE GCD(b, a % b)

Frac(n, d) ==
    LET g == GCD(Abs(n), Abs(d))
        s == IF d < 0 THEN -1 ELSE 1
    IN  IF g = 0 THEN [num |-> 0, den |-> 0]
        ELSE [num |-> s * (n \div g), den |-> s * (d \div g)]

R(n) == [num |-> n, den |-> 1]

FAdd(a, b) == Frac(a.num * b.den + b.num * a.den, a.den * b.den)

FSub(a, b) == Frac(a.num * b.den - b.num * a.den, a.den * b.den)

FMul(a, b) == Frac(a.num * b.num, a.den * b.den)

FDiv(a, b) == Frac(a.num * b.den, a.den * b.num)

FLess(a, b) == a.num * b.den < b.num * a.den

FAbs(a) == [num |-> Abs(a.num), den |-> a.den]

FMin(a, b) == IF FLess(b, a) THEN b ELSE a

---------------------------------------------------------------------------
(* The position worker: GeoMath, Physics, processPosition *)

\* let state = { position: null, velocity: {x: 0, y: 0}, ... }
NoPosition == [null |-> TRUE]

ZeroVector == [x |-> Zero, y |-> Zero]

FreshState ==
    [position |-> NoPosition,
     velocity |-> ZeroVector,
     acceleration |-> ZeroVector,
     bearing |-> Zero,
     speed |-> Zero,
     lastTimestamp |-> 0,
     lastValidBearing |-> Zero]

\* CONFIG
bearingSmoothing == Frac(3, 4)

positionSmoothing == Frac(17, 20)

minSpeedThreshold == Frac(1, 10)

maxSpeed == R(55)

\* GeoMath.normalizeBearing: while (bearing > 360) bearing -= 360;
\* while (bearing < 0) bearing += 360
RECURSIVE NormalizeBearing(_)
NormalizeBearing(bearing) ==
    IF FLess(R(360), bearing) THEN NormalizeBearing(FSub(bearing, R(360)))
    ELSE IF FLess(bearing, Zero) THEN NormalizeBearing(FAdd(bearing, R(360)))
    ELSE Frac(bearing.num, bearing.den)

\* Physics.smooth
Smooth(current, target, factor) ==
    FAdd(current, FMul(FSub(target, current), factor))

\* Physics.smoothBearing
SmoothBearing(current, target, factor) ==
    LET diff == FSub(target, current)
        wrapped == IF FLess(R(180), FAbs(diff))
                   THEN IF FLess(Zero, diff) THEN FSub(diff, R(360))
                        ELSE FAdd(diff, R(360))
                   ELSE diff
    IN  NormalizeBearing(FAdd(current, FMul(wrapped, factor)))

\* Physics.lerpPosition
LerpPosition(pos1, pos2, t) ==
    [lng |-> Smooth(pos1.lng, pos2.lng, t), lat |-> Smooth(pos1.lat, pos2.lat, t)]

SlerpPositionGreatCircle(pos1, pos2, t, near) == [lng |-> [slerp |-> "lng"], lat |-> [slerp |-> "lat"]]

\* Physics.slerpPosition.  near is the outcome of its test dot > 0.9999.  The
\* great-circle branch is trigonometry on pos1, pos2 and t: its two results
\* are kept as the terms they are computed from.
SlerpPosition(pos1, pos2, t, near) ==
    IF near THEN LerpPosition(pos1, pos2, t)
    ELSE [lng |-> [slerp |-> "lng", from |-> pos1, to |-> pos2,
                   t |-> Frac(t.num, t.den)],
          lat |-> [slerp |-> "lat", from |-> pos1, to |-> pos2,
                   t |-> Frac(t.num, t.den)]]

\* x || fallback for a numeric field x of the message that may be missing
OrElse(rec, field, fallback) ==
    IF field \in DOMAIN rec /\ rec[field].num # 0 THEN rec[field] ELSE fallback

\* 't' in newPosition && newPosition.targetLng !== undefined &&
\* newPosition.targetLat !== undefined
IsInterpolation(newPosition) ==
    {"t", "targetLng", "targetLat"} \subseteq DOMAIN newPosition

\* the bearing of an interpolation request: processPosition, "Smoothly
\* interpolate bearing" and "Normalize bearing to 0-360 range"
InterpolateBearing(sourceBearing, targetBearing, t) ==
    LET adjustedTarget == IF FLess(sourceBearing, targetBearing)
                          THEN FSub(targetBearing, R(360))
                          ELSE FAdd(targetBearing, R(360))
        aim == IF FLess(R(180), FAbs(FSub(targetBearing, sourceBearing)))
               THEN adjustedTarget
               ELSE targetBearing
    IN  NormalizeBearing(FAdd(sourceBearing,
                              FMul(FSub(aim, sourceBearing), t)))

\* Physics.smooth on a coordinate; a coordinate that came out of the
\* great-circle branch stays a term
SmoothCoordinate(current, target, factor) ==
    IF "num" \in DOMAIN current THEN Smooth(current, target, factor)
    ELSE [smooth |-> current, toward |-> target, factor |-> factor]

InterpolationUpdateAndSpeed(state, position, bearing, timestamp) ==
    [state EXCEPT !.position = position,
                  !.bearing = bearing,
                  !.speed = Zero,
                  !.lastValidBearing = bearing,
                  !.lastTimestamp = timestamp]

\* processPosition, "Update state with interpolated values"
InterpolationUpdate(state, position, bearing, timestamp) ==
    [state EXCEPT !.position = position,
                  !.bearing = bearing,
                  !.lastTimestamp = timestamp]

NoTimePassedStrict(delta) == delta < 0

\* if (deltaTime <= 0) return state, for delta = timestamp - lastTimestamp
NoTimePassed(delta) == delta <= 0

\* processPosition(newPosition, timestamp) in state `state`: the state it
\* leaves and returns.  geo holds what the geodetic computations of the call
\* give: near (slerpPosition's test), distance (calculateDistance), bearing
\* (calculateBearing), velocity and acceleration (updateVelocity and
\* updateAcceleration, smoothed and clamped).
ProcessPosition(state, newPosition, timestamp, geo) ==
    IF IsInterpolation(newPosition)
    THEN LET sourcePos == [lng |-> newPosition.lng, lat |-> newPosition.lat]
             targetPos == [lng |-> newPosition.targetLng,
                           lat |-> newPosition.targetLat]
             sourceBearing == OrElse(newPosition, "bearing", Zero)
             targetBearing == OrElse(newPosition, "targetBearing",
                                     sourceBearing)
         IN  InterpolationUpdate(
                 state,
                 SlerpPosition(sourcePos, targetPos, newPosition.t, geo.near),
                 InterpolateBearing(sourceBearing, targetBearing,
                                    newPosition.t),
                 timestamp)
    ELSE IF state.position = NoPosition
    THEN [state EXCEPT
              !.position = newPosition,
              !.lastTimestamp = timestamp,
              !.lastValidBearing = OrElse(newPosition, "bearing", Zero)]
    ELSE IF NoTimePassed(timestamp - state.lastTimestamp)
    THEN state
    ELSE LET deltaTime == Frac(timestamp - state.lastTimestamp, 1000)
             moved == FLess(minSpeedThreshold, geo.distance)
             newBearing == IF moved THEN geo.bearing
                           ELSE state.lastValidBearing
         IN  [position |->
                  [lng |-> SmoothCoordinate(state.position.lng,
                                            newPosition.lng, positionSmoothing),
                   lat |-> SmoothCoordinate(state.position.lat,
                                            newPosition.lat, positionSmoothing)],
              velocity |-> geo.velocity,
              acceleration |-> geo.acceleration,
              bearing |-> SmoothBearing(state.bearing, newBearing,
                                        bearingSmoothing),
              speed |-> FMin(FDiv(geo.distance, deltaTime), maxSpeed),
              lastTimestamp |-> timestamp,
              lastValidBearing |-> newBearing]

\* the response self.onmessage builds from the state processPosition returns
Pose(state) ==
    [position |-> state.position,
     bearing |-> state.bearing,
     speed |-> state.speed,
     velocity |-> state.velocity,
     timestamp |-> state.lastTimestamp]

\* self.onmessage: a message without a position is answered with an error
\* before processPosition is called; any other one with the pose of the
\* state that processPosition returns
OnMessage(state, position, timestamp, geo) ==
    IF position = NoPosition
    THEN [state |-> state, response |-> [error |-> TRUE]]
    ELSE LET next == ProcessPosition(state, position, timestamp, geo)
         IN  [state |-> next,
              response |-> [error |-> FALSE, sample |-> Pose(next)]]

---------------------------------------------------------------------------
(* The performance monitor: the frame samples it keeps and the quality tier *)
(* it derives from them.  Its event buffer and its memory metrics do not    *)
(* feed the tier and are left out.                                          *)

\* the length to which updateBasicMetrics trims metrics.*.history
historySize == 60

\* Object.keys(this.qualityLevels)
levels == <<"ultra", "high", "medium", "low">>

\* metrics.fps.threshold and metrics.frameTime.threshold
fpsThreshold == [min |-> R(30), target |-> R(60)]

frameTimeThreshold == [warning |-> R(16), critical |-> R(32)]

\* the monitor as its constructor leaves it; pending counts the monitorLoop
\* callbacks requested and not yet run
NewMonitor ==
    [isMonitoring |-> FALSE,
     currentQuality |-> "high",
     frameTime |-> [current |-> 0, history |-> <<>>],
     fps |-> [current |-> Zero, history |-> <<>>],
     pending |-> 0]

\* levels.indexOf(quality), counted from 1
IndexOf(quality) == CHOOSE i \in 1 .. Len(levels) : levels[i] = quality

DecreaseQualityByTwo(quality) ==
    levels[Min(IndexOf(quality) + 2, Len(levels))]

\* decreaseQuality()
DecreaseQuality(quality) == levels[Min(IndexOf(quality) + 1, Len(levels))]

\* increaseQuality()
IncreaseQuality(quality) == levels[Max(IndexOf(quality) - 1, 1)]

\* history.push(sample); if (history.length > 60) history.shift()
PushKeepAll(history, sample) == Append(history, sample)

PushSample(history, sample) ==
    IF Len(history) + 1 > historySize THEN Tail(Append(history, sample))
    ELSE Append(history, sample)

\* Math.round
Round(f) ==
    IF f.den = 0 THEN f ELSE R((2 * f.num + f.den) \div (2 * f.den))

\* updateBasicMetrics(timestamp), for frameTime = timestamp - lastUpdate
UpdateBasicMetrics(m, frameTime) ==
    [m EXCEPT
         !.frameTime = [current |-> frameTime,
                        history |-> PushSample(m.frameTime.history, frameTime)],
         !.fps = [current |-> Round(Frac(1000, frameTime)),
                  history |-> PushSample(m.fps.history, Frac(1000, frameTime))]]

\* the sum of a history of fractions, added up by halves
RECURSIVE FSum(_)
FSum(seq) ==
    IF Len(seq) = 0 THEN Zero
    ELSE IF Len(seq) = 1 THEN seq[1]
    ELSE LET half == Len(seq) \div 2
         IN  FAdd(FSum(SubSeq(seq, 1, half)),
                  FSum(SubSeq(seq, half + 1, Len(seq))))

\* the sum of a history of whole numbers
RECURSIVE Sum(_)
Sum(seq) ==
    IF Len(seq) = 0 THEN 0
    ELSE IF Len(seq) = 1 THEN seq[1]
    ELSE LET half == Len(seq) \div 2
         IN  Sum(SubSeq(seq, 1, half)) + Sum(SubSeq(seq, half + 1, Len(seq)))

\* history.reduce((a, b) => a + b, 0) / history.length
AverageFps(m) == FDiv(FSum(m.fps.history), R(Len(m.fps.history)))

AverageFrameTime(m) ==
    Frac(Sum(m.frameTime.history), Len(m.frameTime.history))

\* checkPerformance: "Determine appropriate quality level"
TargetQuality(m) ==
    IF \/ FLess(AverageFps(m), fpsThreshold.min)
       \/ FLess(frameTimeThreshold.critical, AverageFrameTime(m))
    THEN DecreaseQuality(m.currentQuality)
    ELSE IF /\ FLess(fpsThreshold.target, AverageFps(m))
            /\ FLess(AverageFrameTime(m), frameTimeThreshold.warning)
    THEN IncreaseQuality(m.currentQuality)
    ELSE m.currentQuality

NotifyAlways(m, targetQuality) == <<targetQuality>>

\* the quality-change events of one checkPerformance: applyQualitySettings
\* runs, and notifies, if the target differs from the current quality
QualityChanges(m, targetQuality) ==
    IF targetQuality # m.currentQuality THEN <<targetQuality>> ELSE <<>>

\* one run of monitorLoop(timestamp) on a monitoring monitor: the monitor it
\* leaves and the record of the evaluation
MonitorLoop(m, frameTime) ==
    LET measured == UpdateBasicMetrics(m, frameTime)
        target == TargetQuality(measured)
    IN  [monitor |-> [measured EXCEPT !.currentQuality = target],
         entry |-> [frameTime |-> frameTime,
                    avgFps |-> AverageFps(measured),
                    avgFrameTime |-> AverageFrameTime(measured),
                    before |-> m.currentQuality,
                    after |-> target,
                    notified |-> QualityChanges(measured, target)]]

---------------------------------------------------------------------------
(* The camera controller of camera-control.js: lock and speed scaling *)

\* this.config of CameraController
cameraConfig ==
    [minAltitude |-> R(200),
     maxAltitude |-> R(1000),
     speedScaling |-> [altitude |-> Frac(1, 2)],
     transition |-> [duration |-> R(50), minDuration |-> R(16),
                     maxDuration |-> R(100)]]

\* this.currentSpeed before the first handleSpeedChange, this.state.offset
\* before the first capture
Undefined == [undefined |-> TRUE]

\* the controller as its constructor leaves it: this.state.isLocked,
\* this.state.altitude, this.state.offset, this.config.transition.duration
\* and this.currentSpeed
NewCameraController ==
    [isLocked |-> FALSE,
     altitude |-> R(500),
     offset |-> Undefined,
     duration |-> cameraConfig.transition.duration,
     currentSpeed |-> Undefined]

FMax(a, b) == IF FLess(a, b) THEN b ELSE a

\* handleSpeedChange, "Adjust altitude"
Altitude(newSpeed) ==
    FAdd(cameraConfig.minAltitude,
         FMul(FMul(FSub(cameraConfig.maxAltitude, cameraConfig.minAltitude),
                   FDiv(FMin(newSpeed, R(4)), R(4))),
              cameraConfig.speedScaling.altitude))

\* handleSpeedChange, "Adjust transition duration"
TransitionDuration(newSpeed) ==
    FMax(cameraConfig.transition.minDuration,
         FMin(cameraConfig.transition.maxDuration, FDiv(R(50), newSpeed)))

\* handleSpeedChange(newSpeed) on the controller c
HandleSpeedChange(c, newSpeed) ==
    IF c.isLocked
    THEN [c EXCEPT !.currentSpeed = newSpeed,
                   !.altitude = Altitude(newSpeed),
                   !.duration = TransitionDuration(newSpeed)]
    ELSE [c EXCEPT !.currentSpeed = newSpeed]

\* toggleLock() on the controller c; captured is what captureCameraOffset
\* stores, Undefined when there is no lock button or no vehicle position
ToggleLock(c, captured) ==
    [c EXCEPT !.isLocked = ~c.isLocked,
              !.offset = IF ~c.isLocked /\ captured # Undefined THEN captured
                         ELSE c.offset]

---------------------------------------------------------------------------
(* History *)

\* camera.offset as the constructor leaves it
NoOffset == [x |-> 0, y |-> 0, zoom |-> 0]

Op(name, arg) ==
    [op |-> name, arg |-> arg, ok |-> TRUE, notified |-> FALSE, posted |-> FALSE,
     threw |-> FALSE, rendered |-> FALSE, camera |-> FALSE, stale |-> FALSE,
     easeTo |-> <<>>, offset |-> <<>>]

---------------------------------------------------------------------------
(* Initial state: constructor, then initialize() *)

Init ==
    /\ isPlaying = FALSE
    /\ currentTime = 0
    /\ duration = 0
    /\ speed = 1
    /\ sinceFrame = 0
    /\ features = <<>>
    /\ timeRange = [start |-> 0, end |-> 0]
    /\ frameId = 0
    /\ workerAlive = TRUE
    /\ isLocked = FALSE
    /\ appAnimation = [isPlaying |-> FALSE]
    /\ rafPending = {}
    /\ toWorker = <<>>
    /\ fromWorker = <<>>
    /\ estimator = FreshState
    /\ monitor = NewMonitor
    /\ monitorLog = <<>>
    /\ cameraController = NewCameraController
    /\ lastOp = Op("init", 0)

---------------------------------------------------------------------------
(* Helpers of the operations *)

\* requestAnimationFrame returns an id no pending callback has
NewFrameId(pending) ==
    CHOOSE i \in 1 .. Cardinality(pending) + 1 :
        i \notin pending /\ \A j \in 1 .. i - 1 : j \in pending

\* The object notifyStateChange stores in window.AppState.animation.  Its
\* currentTime, duration and speed are copies no modelled operation reads; the
\* mirror is kept by its isPlaying field.
Mirror(playing, time, dur, spd) == [isPlaying |-> playing]

\* history: a track load makes every message in flight a message of the old track
MarkStale(queue) == [i \in 1 .. Len(queue) |-> [queue[i] EXCEPT !.stale = TRUE]]

\* !data || !data.features || !data.features.length
InvalidData(data) == ~data.present \/ Len(data.features) = 0

\* if (!this.trackData.features.length) return;
NoTrackNever(feats) == FALSE

NoTrack(feats) == Len(feats) = 0

SeekClampNoLower(time, dur) == Min(time, dur)

\* Math.max(0, Math.min(time, this.state.duration))
SeekClamp(time, dur) == Max(0, Min(time, dur))

EndOfTrackNever(time, dur) == FALSE

\* if (this.state.currentTime >= this.state.duration)
EndOfTrack(time, dur) == time >= dur

\* data.features.sort((a, b) => a.properties.timestamp - b.properties.timestamp),
\* a stable sort
RECURSIVE InsertByTimestamp(_, _)
InsertByTimestamp(sorted, f) ==
    IF sorted = <<>> THEN <<f>>
    ELSE IF sorted[Len(sorted)].timestamp <= f.timestamp THEN Append(sorted, f)
    ELSE Append(InsertByTimestamp(SubSeq(sorted, 1, Len(sorted) - 1), f),
                sorted[Len(sorted)])

KeepOrder(feats) == feats

RECURSIVE SortByTimestamp(_)
SortByTimestamp(feats) ==
    IF feats = <<>> THEN <<>>
    ELSE InsertByTimestamp(SortByTimestamp(SubSeq(feats, 1, Len(feats) - 1)),
                           feats[Len(feats)])

---------------------------------------------------------------------------
(* Operations of the controller *)

\* the number of features handed over, -1 for missing data
Handed(data) == IF data.present THEN Len(data.features) ELSE -1

RejectTrackAndClear(data) ==
    /\ lastOp' = [Op("setTrackData", Handed(data)) EXCEPT !.ok = FALSE]
    /\ features' = <<>>
    /\ timeRange' = [start |-> 0, end |-> 0]
    /\ UNCHANGED <<isPlaying, currentTime, duration, speed, sinceFrame,
                   frameId, workerAlive, isLocked, rafPending, toWorker,
                   fromWorker, estimator, monitor,
                   monitorLog, cameraController>>

\* console.error('Invalid track data'); return false
RejectTrack(data) ==
    /\ lastOp' = [Op("setTrackData", Handed(data)) EXCEPT !.ok = FALSE]
    /\ UNCHANGED <<isPlaying, currentTime, duration, speed, sinceFrame,
                   features, timeRange, frameId, workerAlive, isLocked,
                   rafPending, toWorker, fromWorker, estimator, monitor,
                   monitorLog, cameraController>>

\* setTrackData(data); appAnimation is the caller's
SetTrackData(data) ==
    IF InvalidData(data)
    THEN RejectTrack(data)
    ELSE LET range == [start |-> SetMin(Timestamps(data.features)),
                       end |-> SetMax(Timestamps(data.features))]
             outcome == UpdatePositionOutcome(data.features, workerAlive)
         IN  /\ CanPost(data.features, workerAlive)
             /\ features' = data.features
             /\ timeRange' = range
             /\ duration' = range.end - range.start
             /\ currentTime' = 0
             /\ toWorker' = Posted(MarkStale(toWorker), data.features, range, 0,
                                   workerAlive)
             /\ fromWorker' = MarkStale(fromWorker)
             /\ lastOp' = [Op("setTrackData", Handed(data)) EXCEPT
                               !.posted = (outcome = "post"),
                               !.threw = (outcome = "throw")]
             /\ UNCHANGED <<isPlaying, speed, sinceFrame, frameId, workerAlive,
                            isLocked, rafPending, estimator, monitor,
                   monitorLog, cameraController>>

\* processData(data) of the application, the caller of setTrackData:
\* validates, sorts, resets the mirror and hands the track to the controller
ProcessData(data) ==
    IF InvalidData(data)
    THEN /\ lastOp' = [Op("processData", 0) EXCEPT !.ok = FALSE]
         /\ UNCHANGED <<isPlaying, currentTime, duration, speed, sinceFrame,
                        features, timeRange, frameId, workerAlive, isLocked,
                        appAnimation, rafPending, toWorker, fromWorker,
                        estimator, monitor,
                   monitorLog, cameraController>>
    ELSE LET sorted == SortByTimestamp(data.features)
         IN  /\ appAnimation' = [appAnimation EXCEPT !.isPlaying = FALSE]
             /\ SetTrackData(Data(sorted))

\* setTrackData called with data that processData would have refused
DirectInputs == {NoData, Data(<<>>)}

SetTrackDataCall(data) ==
    /\ SetTrackData(data)
    /\ UNCHANGED appAnimation

NoFrameRequestedNever(id) == TRUE

\* play(): if (!this.frameId)
NoFrameRequested(id) == id = 0

LastFrameTimeKept(since) == since

\* play(): state.lastFrameTime = performance.now(), as the time that has
\* passed since lastFrameTime
LastFrameTimeNow(since) == 0

Play ==
    IF NoTrack(features)
    THEN /\ lastOp' = [Op("play", 0) EXCEPT !.ok = FALSE]
         /\ UNCHANGED <<isPlaying, currentTime, duration, speed, sinceFrame,
                        features, timeRange, frameId, workerAlive, isLocked,
                        appAnimation, rafPending, toWorker, fromWorker,
                        estimator, monitor,
                   monitorLog, cameraController>>
    ELSE /\ isPlaying' = TRUE
         /\ sinceFrame' = LastFrameTimeNow(sinceFrame)
         /\ IF NoFrameRequested(frameId)
            THEN /\ frameId' = NewFrameId(rafPending)
                 /\ rafPending' = rafPending \cup {NewFrameId(rafPending)}
            ELSE UNCHANGED <<frameId, rafPending>>
         /\ appAnimation' = Mirror(TRUE, currentTime, duration, speed)
         /\ lastOp' = [Op("play", 0) EXCEPT !.notified = TRUE]
         /\ UNCHANGED <<currentTime, duration, speed, features, timeRange,
                        workerAlive, isLocked, toWorker, fromWorker, estimator, monitor,
                   monitorLog, cameraController>>

Pause ==
    /\ isPlaying' = FALSE
    /\ rafPending' = rafPending \ {frameId}
    /\ frameId' = 0
    /\ appAnimation' = Mirror(FALSE, currentTime, duration, speed)
    /\ lastOp' = [Op("pause", 0) EXCEPT !.notified = TRUE]
    /\ UNCHANGED <<currentTime, duration, speed, sinceFrame, features,
                   timeRange, workerAlive, isLocked, toWorker, fromWorker,
                   estimator, monitor,
                   monitorLog, cameraController>>

SetSpeed(s) ==
    /\ speed' = s
    /\ lastOp' = Op("setSpeed", s)
    /\ UNCHANGED <<isPlaying, currentTime, duration, sinceFrame, features,
                   timeRange, frameId, workerAlive, isLocked, appAnimation,
                   rafPending, toWorker, fromWorker, estimator, monitor,
                   monitorLog, cameraController>>

SeekTo(time) ==
    LET clamped == SeekClamp(time, duration)
        outcome == UpdatePositionOutcome(features, workerAlive)
    IN  /\ CanPost(features, workerAlive)
        /\ currentTime' = clamped
        /\ toWorker' = Posted(toWorker, features, timeRange, clamped, workerAlive)
        /\ appAnimation' = IF outcome = "throw" THEN appAnimation
                           ELSE Mirror(isPlaying, clamped, duration, speed)
        /\ lastOp' = [Op("seekTo", time) EXCEPT !.posted = (outcome = "post"),
                                                !.threw = (outcome = "throw"),
                                                !.notified = (outcome # "throw")]
        /\ UNCHANGED <<isPlaying, duration, speed, sinceFrame, features,
                       timeRange, frameId, workerAlive, isLocked, rafPending,
                       fromWorker, estimator, monitor,
                   monitorLog, cameraController>>

\* what updateCameraOffset can capture: the map's centre against the
\* vehicle, and the map's zoom; NoOffset stands for a layer that has no
\* vehicle position yet
Offsets == {[x |-> 1, y |-> 0, zoom |-> 15]}

ReleaseAndForget(locked) == <<NoOffset>>

\* toggleCameraLock turning the lock off: no assignment to camera.offset
Release(locked) == <<>>

\* updateCameraOffset(): the values it assigns to camera.offset
UpdateCameraOffset(captured) ==
    IF captured = NoOffset THEN <<>> ELSE <<captured>>

ToggleCameraLock ==
    /\ isLocked' = ~isLocked
    /\ IF isLocked
       THEN lastOp' = [Op("toggleCameraLock", 0) EXCEPT
                          !.offset = Release(isLocked)]
       ELSE \E captured \in Offsets \cup {NoOffset} :
                lastOp' = [Op("toggleCameraLock", 0) EXCEPT
                              !.offset = UpdateCameraOffset(captured)]
    /\ UNCHANGED <<isPlaying, currentTime, duration, speed, sinceFrame,
                   features, timeRange, frameId, workerAlive, appAnimation,
                   rafPending, toWorker, fromWorker, estimator, monitor,
                   monitorLog, cameraController>>

\* cleanup(): pause(), terminate the worker (which discards the messages in
\* flight), unlock the camera, clear the track
Cleanup ==
    /\ isPlaying' = FALSE
    /\ rafPending' = rafPending \ {frameId}
    /\ frameId' = 0
    /\ appAnimation' = Mirror(FALSE, currentTime, duration, speed)
    /\ workerAlive' = FALSE
    /\ toWorker' = <<>>
    /\ fromWorker' = <<>>
    /\ isLocked' = FALSE
    /\ features' = <<>>
    /\ timeRange' = [start |-> 0, end |-> 0]
    /\ lastOp' = [Op("cleanup", 0) EXCEPT !.notified = TRUE]
    /\ UNCHANGED <<currentTime, duration, speed, sinceFrame, estimator, monitor,
                   monitorLog, cameraController>>

\* animate(timestamp), the frame callback with id `id`; the frame driver
\* passes the current time as timestamp
Animate(id) ==
    /\ id \in rafPending
    /\ IF ~isPlaying
       THEN /\ rafPending' = rafPending \ {id}
            /\ lastOp' = [Op("animate", 0) EXCEPT !.ok = FALSE]
            /\ UNCHANGED <<isPlaying, currentTime, duration, speed, sinceFrame,
                           features, timeRange, frameId, workerAlive, isLocked,
                           appAnimation, toWorker, fromWorker, estimator, monitor,
                   monitorLog, cameraController>>
       ELSE LET deltaTime == sinceFrame
                advanced == currentTime + deltaTime * speed
                done == EndOfTrack(advanced, duration)
                time == IF done THEN duration ELSE advanced
                \* pause() when done
                pending == IF done THEN (rafPending \ {id}) \ {frameId}
                           ELSE rafPending \ {id}
                outcome == UpdatePositionOutcome(features, workerAlive)
            IN  /\ CanPost(features, workerAlive)
                /\ advanced >= -MaxGap
                /\ sinceFrame' = 0
                /\ currentTime' = time
                /\ isPlaying' = ~done
                /\ appAnimation' = IF done
                                   THEN Mirror(FALSE, time, duration, speed)
                                   ELSE appAnimation
                /\ toWorker' = Posted(toWorker, features, timeRange, time,
                                      workerAlive)
                /\ IF outcome = "throw"
                   THEN /\ frameId' = IF done THEN 0 ELSE frameId
                        /\ rafPending' = pending
                   ELSE /\ frameId' = NewFrameId(pending)
                        /\ rafPending' = pending \cup {NewFrameId(pending)}
                /\ lastOp' = [Op("animate", 0) EXCEPT
                                  !.notified = done,
                                  !.posted = (outcome = "post"),
                                  !.threw = (outcome = "throw")]
                /\ UNCHANGED <<duration, speed, features, timeRange, workerAlive,
                               isLocked, fromWorker, estimator, monitor,
                   monitorLog, cameraController>>

\* the options of the map.easeTo call of updateCamera
UpdateCamera == [pitch |-> 60, duration |-> 0]

CameraCommandsAlways(locked) == <<UpdateCamera>>

\* handleWorkerMessage, "Update camera if locked": the easeTo calls made
CameraCommands(locked) == IF locked THEN <<UpdateCamera>> ELSE <<>>

\* handleWorkerMessage: the map.easeTo calls made for a response
CameraUpdates(response, locked) ==
    IF response.error THEN <<>> ELSE CameraCommands(locked)

RendererUpdatesAlways(response) == <<response>>

\* handleWorkerMessage, "Update WebGL layer": the webglLayer.updatePosition
\* calls made for a response, each named by the sample it renders
RendererUpdates(response) ==
    IF response.error THEN <<>> ELSE <<response.sample>>

\* handleWorkerMessage(e) for the oldest undelivered response
HandleWorkerMessage ==
    /\ Len(fromWorker) > 0
    /\ fromWorker' = Tail(fromWorker)
    /\ lastOp' = IF Head(fromWorker).error
                 THEN [Op("handleWorkerMessage", 0) EXCEPT !.ok = FALSE]
                 ELSE [Op("handleWorkerMessage", 0) EXCEPT
                           !.rendered =
                               Len(RendererUpdates(Head(fromWorker))) = 1,
                           !.camera = isLocked,
                           !.easeTo =
                               CameraUpdates(Head(fromWorker), isLocked),
                           !.stale = Head(fromWorker).stale]
    /\ UNCHANGED <<isPlaying, currentTime, duration, speed, sinceFrame,
                   features, timeRange, frameId, workerAlive, isLocked,
                   appAnimation, rafPending, toWorker, estimator, monitor,
                   monitorLog, cameraController>>

---------------------------------------------------------------------------
(* Environment *)

\* self.onmessage of the worker: one response per message.  The pose that
\* processPosition computes is kept as the interpolation request it is
\* computed from.
Response(msg) ==
    [error |-> FALSE, position |-> msg.position, sample |-> msg.sample,
     stale |-> msg.stale]

WorkerStep ==
    /\ workerAlive
    /\ Len(toWorker) > 0
    /\ fromWorker' = Append(fromWorker, Response(Head(toWorker)))
    /\ toWorker' = Tail(toWorker)
    /\ lastOp' = Op("worker", 0)
    /\ UNCHANGED <<isPlaying, currentTime, duration, speed, sinceFrame,
                   features, timeRange, frameId, workerAlive, isLocked,
                   appAnimation, rafPending, estimator, monitor,
                   monitorLog, cameraController>>

\* time passes
Tick ==
    /\ sinceFrame < MaxGap
    /\ sinceFrame' = sinceFrame + 1
    /\ lastOp' = Op("tick", 0)
    /\ UNCHANGED <<isPlaying, currentTime, duration, speed, features,
                   timeRange, frameId, workerAlive, isLocked, appAnimation,
                   rafPending, toWorker, fromWorker, estimator, monitor,
                   monitorLog, cameraController>>

---------------------------------------------------------------------------

Next ==
    \/ \E data \in DataInputs : ProcessData(data)
    \/ \E data \in DirectInputs : SetTrackDataCall(data)
    \/ Play
    \/ Pause
    \/ \E s \in Speeds : SetSpeed(s)
    \/ \E time \in SeekTimes : SeekTo(time)
    \/ ToggleCameraLock
    \/ Cleanup
    \/ \E id \in rafPending : Animate(id)
    \/ HandleWorkerMessage
    \/ WorkerStep
    \/ Tick

Spec == Init /\ [][Next]_vars

\* The browser runs every requested frame callback and every message event,
\* the worker answers every message, and time passes between frames.
Fairness ==
    /\ WF_vars(\E id \in rafPending : Animate(id))
    /\ WF_vars(Tick)
    /\ WF_vars(WorkerStep)
    /\ WF_vars(HandleWorkerMessage)

LiveSpec == Spec /\ Fairness

---------------------------------------------------------------------------
(* One call at a time: the sampler and the bearing arithmetic (CallSpec),  *)
(* the messages to the worker (WorkerSpec)                                 *)

\* the longest elapsed time handed to updatePosition (thousandths of a second)
MaxElapsed == 4

\* the latest timestamp of a message to the worker (ms)
MaxTimestamp == 2

controller ==
    <<isPlaying, currentTime, duration, speed, sinceFrame, features, timeRange,
      frameId, workerAlive, isLocked, appAnimation, rafPending, toWorker,
      fromWorker>>

\* trackData.timeRange as setTrackData computes it
TimeRangeOf(feats) ==
    [start |-> SetMin(Timestamps(feats)), end |-> SetMax(Timestamps(feats))]

\* tracks as processData hands them over
CallTracks == {TrackA, TrackOne, SortByTimestamp(TrackUnsorted)}

SampleTimes == -1 .. MaxElapsed

Point(lng, lat) == [lng |-> R(lng), lat |-> R(lat)]

\* raw fixes: a position, with or without a bearing
RawFixes ==
    {Point(0, 0), Point(1, 0)}
        \cup {[lng |-> R(1), lat |-> R(0), bearing |-> R(b)] : b \in {90}}

\* an interpolation request, shaped as updatePosition posts it: from the
\* point (0, 0) with bearing b to the point (x, 0) with bearing tb
InterpolationRequest(b, tb, t, x) ==
    [lng |-> R(0), lat |-> R(0), bearing |-> R(b), t |-> t,
     targetLng |-> R(x), targetLat |-> R(0), targetBearing |-> R(tb)]

InterpolationFactors == {Zero, [num |-> 1, den |-> 4], [num |-> 1, den |-> 1]}

\* the requests sent to a worker that keeps its state
WorkerInterpolations ==
    {InterpolationRequest(b, tb, t, x) :
        b \in {90, 350}, tb \in {30}, t \in {[num |-> 1, den |-> 4]},
        x \in {0, 1}}

BearingSamples == {0, 5, 10, 90, 180, 190, 345, 350}

\* the requests sent one at a time to a worker as constructed
Interpolations ==
    {InterpolationRequest(b, tb, t, x) :
        b \in BearingSamples, tb \in BearingSamples,
        t \in InterpolationFactors, x \in {0, 1}}

NormalizeInputs ==
    {R(d) : d \in {-720, -361, -360, -1, 0, 1, 359, 360, 361, 720, 725}}
        \cup {Frac(-1, 2), Frac(719, 2), Frac(721, 2)}

\* values of the geodetic computations of one call
Distances == {Zero, Frac(1, 20), R(100)}

CalculatedBearings == {R(200)}

Vectors == {[x |-> R(1), y |-> R(-1)]}

SamePoint(a, b) == "num" \in DOMAIN a.lng /\ a.lng = b.lng /\ a.lat = b.lat

\* calculateDistance is 0 for the same point and positive for two distinct
\* ones; two identical points have dot > 0.9999
GeoOutcomes(state, newPosition) ==
    IF IsInterpolation(newPosition)
    THEN {[near |-> n, distance |-> Zero, bearing |-> Zero,
           velocity |-> ZeroVector, acceleration |-> ZeroVector] :
              n \in IF newPosition.lng = newPosition.targetLng
                       /\ newPosition.lat = newPosition.targetLat
                    THEN {TRUE} ELSE BOOLEAN}
    ELSE {[near |-> FALSE, distance |-> d, bearing |-> b, velocity |-> v,
           acceleration |-> a] :
              d \in IF state.position = NoPosition THEN {Zero}
                    ELSE IF SamePoint(state.position, newPosition) THEN {Zero}
                    ELSE IF "num" \in DOMAIN state.position.lng
                    THEN Distances \ {Zero}
                    ELSE Distances,
              b \in CalculatedBearings, v \in Vectors, a \in Vectors}

\* updatePosition(time) on a controller that holds the track feats
UpdatePositionCall(feats, time) ==
    /\ lastOp' = [op |-> "updatePosition", track |-> feats, time |-> time,
                  request |-> Request(feats, TimeRangeOf(feats), time)]
    /\ UNCHANGED <<controller, estimator, monitor, monitorLog, cameraController>>

\* one message to the worker
ProcessPositionCall(newPosition, timestamp) ==
    \E geo \in GeoOutcomes(estimator, newPosition) :
        LET reply == OnMessage(estimator, newPosition, timestamp, geo)
        IN  /\ estimator' = reply.state
            /\ lastOp' = [op |-> "processPosition", position |-> newPosition,
                          timestamp |-> timestamp,
                          pose |-> Pose(reply.state),
                          response |-> reply.response]
            /\ UNCHANGED <<controller, monitor, monitorLog, cameraController>>

\* one message without a position to the worker; no geodetic computation
\* is made for it
NullPositionCall(timestamp) ==
    LET reply == OnMessage(estimator, NoPosition, timestamp, <<>>)
    IN  /\ estimator' = reply.state
        /\ lastOp' = [op |-> "onmessage", position |-> NoPosition,
                      response |-> reply.response]
        /\ UNCHANGED <<controller, monitor, monitorLog, cameraController>>

\* handleWorkerMessage(e) for the response to a message without a position,
\* on a controller whose camera lock is `locked`
HandleWorkerMessageCall(locked) ==
    /\ lastOp.op = "onmessage"
    /\ lastOp' = [op |-> "handleWorkerMessage", position |-> lastOp.position,
                  response |-> lastOp.response, locked |-> locked,
                  applied |-> RendererUpdates(lastOp.response),
                  easeTo |-> CameraUpdates(lastOp.response, locked)]
    /\ UNCHANGED <<controller, estimator, monitor, monitorLog,
                   cameraController>>

\* one interpolation request to a worker as constructed: the pose it answers
InterpolationCall(newPosition) ==
    \E geo \in GeoOutcomes(FreshState, newPosition) :
        /\ lastOp' = [op |-> "interpolation", position |-> newPosition,
                      pose |-> Pose(ProcessPosition(FreshState, newPosition, 0,
                                                    geo))]
        /\ UNCHANGED <<controller, estimator, monitor, monitorLog, cameraController>>

\* the points handed to slerpPosition
SlerpPoints == {Point(0, 0), Point(1, 0), Point(1, 2)}

\* the outcomes of dot > 0.9999 in slerpPosition: the dot product of a unit
\* vector with itself is 1 up to rounding; two distinct points may lie on
\* either side of the threshold
DotAboveThreshold(pos1, pos2) == IF pos1 = pos2 THEN {TRUE} ELSE BOOLEAN

\* one call of slerpPosition
SlerpPositionCall(pos1, pos2, t) ==
    \E near \in DotAboveThreshold(pos1, pos2) :
        /\ lastOp' = [op |-> "slerpPosition", pos1 |-> pos1, pos2 |-> pos2,
                      t |-> t, near |-> near,
                      result |-> SlerpPosition(pos1, pos2, t, near)]
        /\ UNCHANGED <<controller, estimator, monitor, monitorLog,
                       cameraController>>

SmoothBearingCall(current, target) ==
    /\ lastOp' = [op |-> "smoothBearing", current |-> current,
                  target |-> target,
                  result |-> SmoothBearing(current, target, bearingSmoothing)]
    /\ UNCHANGED <<controller, estimator, monitor, monitorLog, cameraController>>

NormalizeBearingCall(bearing) ==
    /\ lastOp' = [op |-> "normalizeBearing", arg |-> bearing,
                  result |-> NormalizeBearing(bearing)]
    /\ UNCHANGED <<controller, estimator, monitor, monitorLog, cameraController>>

WorkerNext ==
    \/ \E newPosition \in RawFixes \cup WorkerInterpolations,
          timestamp \in 0 .. MaxTimestamp :
           ProcessPositionCall(newPosition, timestamp)
    \/ \E timestamp \in 0 .. MaxTimestamp : NullPositionCall(timestamp)
    \/ \E locked \in BOOLEAN : HandleWorkerMessageCall(locked)

WorkerSpec == Init /\ [][WorkerNext]_vars

CallNext ==
    \/ \E feats \in CallTracks, time \in SampleTimes :
           UpdatePositionCall(feats, time)
    \/ \E newPosition \in Interpolations : InterpolationCall(newPosition)
    \/ \E current \in BearingSamples, target \in BearingSamples :
           SmoothBearingCall(R(current), R(target))
    \/ \E bearing \in NormalizeInputs : NormalizeBearingCall(bearing)
    \/ \E pos1 \in SlerpPoints, pos2 \in SlerpPoints,
          t \in InterpolationFactors :
           SlerpPositionCall(pos1, pos2, t)

CallSpec == Init /\ [][CallNext]_vars

---------------------------------------------------------------------------
(* The performance monitor from start() on, one display refresh at a time  *)
(* (MonitorSpec)                                                           *)

\* the most evaluations of the monitor in one behaviour
MaxFrames == 62

\* the time between two display refreshes (ms): a fast and a slow display
FrameTimes == {10, 40}

\* the numbers of evaluations after which the load, and with it the time
\* between two refreshes, may change
LoadChanges == {0, 1, 2, 30}

\* the most monitorLoop callbacks followed at a time
MaxPending == 2

\* stop() is called within the first MaxStopFrame evaluations
MaxStopFrame == 2

\* start()
Start ==
    /\ monitor.isMonitoring \/ monitor.pending < MaxPending
    /\ monitor' = IF monitor.isMonitoring THEN monitor
                  ELSE [monitor EXCEPT !.isMonitoring = TRUE,
                                       !.pending = @ + 1]
    /\ UNCHANGED <<controller, estimator, monitorLog, cameraController, lastOp>>

\* stop()
Stop ==
    /\ Len(monitorLog) <= MaxStopFrame
    /\ monitor' = [monitor EXCEPT !.isMonitoring = FALSE]
    /\ UNCHANGED <<controller, estimator, monitorLog, cameraController, lastOp>>

\* the monitorLoop callbacks of one refresh, k of them still to run: the
\* first measures the time since the last update, the others of the same
\* refresh get the same timestamp
RECURSIVE RunCallbacks(_, _, _, _)
RunCallbacks(m, log, frameTime, k) ==
    IF k = 0 THEN [monitor |-> m, log |-> log]
    ELSE IF ~m.isMonitoring
    THEN RunCallbacks([m EXCEPT !.pending = @ - 1], log, frameTime, k - 1)
    ELSE LET loop == MonitorLoop(m, frameTime)
         IN  RunCallbacks(loop.monitor, Append(log, loop.entry), 0, k - 1)

\* the frame time of the last refresh in the first i entries of the log, 0
\* if there is none: the entries of one refresh are one with its frame time
\* and then those with 0
RECURSIVE LastRefresh(_, _)
LastRefresh(log, i) ==
    IF i = 0 THEN 0
    ELSE IF log[i].frameTime # 0 THEN log[i].frameTime
    ELSE LastRefresh(log, i - 1)

\* a display refresh, frameTime after the last update of the monitor
MonitorFrame(frameTime) ==
    /\ monitor.pending > 0
    /\ Len(monitorLog) + monitor.pending <= MaxFrames
    /\ IF Len(monitorLog) \in LoadChanges THEN TRUE
       ELSE frameTime = LastRefresh(monitorLog, Len(monitorLog))
    /\ LET ran == RunCallbacks(monitor, monitorLog, frameTime, monitor.pending)
       IN  /\ monitor' = ran.monitor
           /\ monitorLog' = ran.log
    /\ UNCHANGED <<controller, estimator, cameraController, lastOp>>

MonitorNext ==
    \/ Start
    \/ Stop
    \/ \E frameTime \in FrameTimes : MonitorFrame(frameTime)

MonitorSpec == Init /\ [][MonitorNext]_vars

---------------------------------------------------------------------------
(* The camera controller under lock toggles and speed changes (CameraSpec) *)

\* playback speeds handed to handleSpeedChange
CameraSpeeds == {R(-1), Zero, Frac(1, 2), R(1), R(2), R(4), R(8)}

\* what captureCameraOffset stores; Undefined when it stores nothing
CapturedOffsets ==
    {Undefined, [x |-> R(1), y |-> Zero, zoom |-> R(15), bearing |-> Zero]}

HandleSpeedChangeCall(newSpeed) ==
    /\ cameraController' = HandleSpeedChange(cameraController, newSpeed)
    /\ lastOp' = [op |-> "handleSpeedChange", speed |-> newSpeed]
    /\ UNCHANGED <<controller, estimator, monitor, monitorLog>>

ToggleLockCall ==
    /\ \E captured \in CapturedOffsets :
           cameraController' = ToggleLock(cameraController, captured)
    /\ lastOp' = [op |-> "toggleLock"]
    /\ UNCHANGED <<controller, estimator, monitor, monitorLog>>

CameraNext ==
    \/ \E newSpeed \in CameraSpeeds : HandleSpeedChangeCall(newSpeed)
    \/ ToggleLockCall

CameraSpec == Init /\ [][CameraNext]_vars

---------------------------------------------------------------------------
(* Claims *)

\* equality of two fractions with non-zero denominators
SameFraction(a, b) == a.num * b.den = b.num * a.den

\* msg was computed from the track that is loaded now
Current(msg) == ~msg.stale

\* C1: after any sequence of setTrackData, play, pause, seekTo, setSpeed and
\* frame ticks, with any speed value, 0 <= currentTime <= duration.
C1_ElapsedWithinDuration == 0 <= currentTime /\ currentTime <= duration

\* C2: loading a non-empty track in any clock state, also while playing,
\* leaves the clock stopped, elapsed 0, and duration = latest - earliest
\* timestamp.
C2_LoadStopsClock ==
    (lastOp.op = "setTrackData" /\ lastOp.ok) =>
        /\ ~isPlaying
        /\ currentTime = 0
        /\ duration = SetMax(Timestamps(features)) - SetMin(Timestamps(features))

\* C3: at most one request is in flight to the worker: no request is posted
\* before the response to the previous one has been handled.
C3_OneRequestInFlight == InFlight <= 1

\* C4: a response to a request made against the previous track, delivered
\* after a new track was loaded, updates neither the renderer nor the camera.
C4_StaleResponseIgnored ==
    (lastOp.op = "handleWorkerMessage" /\ lastOp.stale) =>
        (~lastOp.rendered /\ ~lastOp.camera)

\* C5: setSpeed(mult) with mult <= 0 is rejected, leaving the speed as it
\* was, so the speed is > 0 in every reachable state.
C5_NonPositiveSpeedRejected ==
    /\ speed > 0
    /\ (lastOp.op = "setSpeed" /\ lastOp.arg <= 0) => speed # lastOp.arg

\* C6: a frame advance that brings elapsed to >= duration clamps it to
\* exactly duration and stops the clock; a frame tick that arrives while the
\* clock is not playing changes no clock state.
C6_EndClampAndIdleTick ==
    [][lastOp'.op = "animate" =>
          IF isPlaying
          THEN currentTime + sinceFrame * speed >= duration =>
                   (currentTime' = duration /\ ~isPlaying')
          ELSE UNCHANGED <<isPlaying, currentTime, duration, speed, sinceFrame,
                           features, timeRange, frameId, appAnimation>>]_vars

\* C6 witness: a frame advance has run the clock into the end of a track of
\* positive duration and stopped it there
C6_Witness ==
    /\ lastOp.op = "animate"
    /\ lastOp.notified
    /\ duration > 0
    /\ currentTime = duration
    /\ ~isPlaying

\* C7: seekTo(sec) in any state sets elapsed to min(max(sec, 0), duration)
\* and leaves playing state, speed, duration and track as they were.
C7_SeekClamps ==
    [][lastOp'.op = "seekTo" =>
          /\ currentTime' = Min(Max(lastOp'.arg, 0), duration)
          /\ UNCHANGED <<isPlaying, speed, duration, features, timeRange>>]_vars

\* C7 witness: a seek beyond the end of a loaded track, made while playing,
\* has put elapsed at the duration
C7_Witness ==
    /\ lastOp.op = "seekTo"
    /\ lastOp.arg > duration
    /\ duration > 0
    /\ currentTime = duration
    /\ isPlaying

\* C8: play() with no track loaded is a no-op: isPlaying stays false, no
\* frame callback is scheduled, no state change is notified; with a track,
\* play() makes the clock playing.
C8_PlayNeedsTrack ==
    [][lastOp'.op = "play" =>
          IF Len(features) = 0
          THEN /\ ~isPlaying
               /\ ~lastOp'.notified
               /\ UNCHANGED <<isPlaying, currentTime, duration, speed, sinceFrame,
                              frameId, rafPending, appAnimation>>
          ELSE isPlaying']_vars

\* C8 witness: play() was called after cleanup() dropped a track, and did
\* nothing
C8_Witness ==
    /\ lastOp.op = "play"
    /\ ~lastOp.ok
    /\ ~workerAlive
    /\ duration > 0
    /\ ~isPlaying

\* msg carries the bracket the claim C9 describes, for the loaded track
C9_Bracket(msg) ==
    LET n == Len(features)
        target == msg.sample.targetTime
        prev == msg.sample.prevIndex
        next == msg.sample.nextIndex
    IN  (IsSorted(features) /\ target < features[n].timestamp) =>
            /\ next \in 0 .. n - 1
            /\ features[next + 1].timestamp > target
            /\ \A i \in 0 .. next - 1 : features[i + 1].timestamp <= target
            /\ prev = next - 1
            /\ prev >= 0
            /\ features[prev + 1].timestamp <= target
            /\ msg.position.t.den # 0
            /\ SameFraction(msg.position.t,
                            [num |-> target - features[prev + 1].timestamp,
                             den |-> features[next + 1].timestamp
                                     - features[prev + 1].timestamp])

\* the example of C9: timestamps [0, 1000, 3000], elapsed 1.5 s
C9_Example ==
    LET track == <<Feature(0, 0, 0, 0), Feature(1000, 1, 1, 0),
                   Feature(3000, 2, 2, 0)>>
        s == Sample(track, [start |-> 0, end |-> 3000], 1500)
    IN  /\ s.prevIndex = 1
        /\ s.nextIndex = 2
        /\ SameFraction(s.t, [num |-> 1, den |-> 4])

\* C9: for every sorted track and every elapsed time whose target
\* (start + elapsed*1000) is below the last timestamp, next is the first
\* point with timestamp > target, prev the point immediately before it,
\* prev.timestamp <= target < next.timestamp and
\* t = (target - prev.timestamp) / (next.timestamp - prev.timestamp);
\* timestamps [0, 1000, 3000] with elapsed 1.5 give points 1 and 2, t = 0.25.
C9_BracketBelowEnd ==
    /\ C9_Example
    /\ \A i \in 1 .. Len(toWorker) :
           Current(toWorker[i]) => C9_Bracket(toWorker[i])

\* msg carries a fraction t in [0, 1] that was computed without dividing by 0
C10_Fraction(msg) ==
    (IsSorted(features) /\ 0 <= msg.sample.time /\ msg.sample.time <= duration) =>
        /\ msg.position.t.den > 0
        /\ 0 <= msg.position.t.num
        /\ msg.position.t.num <= msg.position.t.den

\* C10: for every sorted track, duplicate timestamps allowed, and every
\* elapsed in [0, duration], the fraction t sent to the worker satisfies
\* 0 <= t <= 1 and is computed without a division by zero.
C10_FractionInUnitInterval ==
    \A i \in 1 .. Len(toWorker) :
        Current(toWorker[i]) => C10_Fraction(toWorker[i])

\* C10 witness: a request in flight for a point strictly inside a track that
\* has a repeated timestamp, and one for the end of the loaded track
C10_Witness ==
    /\ \E i \in 1 .. Len(features) - 1 :
           features[i].timestamp = features[i + 1].timestamp
    /\ \E i \in 1 .. Len(toWorker) :
           /\ Current(toWorker[i])
           /\ 0 < toWorker[i].position.t.num
           /\ toWorker[i].position.t.num < toWorker[i].position.t.den
    /\ \E i \in 1 .. Len(toWorker) :
           /\ Current(toWorker[i])
           /\ toWorker[i].sample.time = duration

\* msg, a request computed on the track feats, has the last point of feats as
\* its source and as its target, with t = 0
C11_AtLastPoint(feats, msg) ==
    LET n == Len(feats)
        last == feats[n]
    IN  /\ msg.sample.prevIndex = n - 1
        /\ msg.position.lng = last.coordinates[1]
        /\ msg.position.lat = last.coordinates[2]
        /\ msg.position.bearing = last.bearing
        /\ msg.position.targetLng = last.coordinates[1]
        /\ msg.position.targetLat = last.coordinates[2]
        /\ msg.position.targetBearing = last.bearing
        /\ msg.position.t.num = 0
        /\ msg.position.t.den # 0

\* C11: when no track point has a timestamp greater than the target time
\* (elapsed at or beyond the end of the track), and for every query on a
\* single-point track, prev and next are both the last point and t = 0.
C11_EndClamp ==
    lastOp.op = "updatePosition" =>
        LET feats == lastOp.track
            target == lastOp.request.sample.targetTime
        IN  ((\A i \in 1 .. Len(feats) : feats[i].timestamp <= target)
                \/ Len(feats) = 1)
                => C11_AtLastPoint(feats, lastOp.request)

\* C11 witness: a query beyond the end of a track of several points
C11_Witness ==
    /\ lastOp.op = "updatePosition"
    /\ Len(lastOp.track) > 1
    /\ lastOp.request.sample.targetTime > TimeRangeOf(lastOp.track).end
    /\ lastOp.request.sample.nextIndex = Len(lastOp.track)

\* C12: sampling a position while the track is empty fails with an error
\* (EmptyTrackError) that reaches the caller; no bracket is computed and no
\* request is sent to the worker.  seekTo is the caller that can meet an
\* empty track.
C12_EmptyTrackFails ==
    (lastOp.op = "seekTo" /\ Len(features) = 0) =>
        (lastOp.threw /\ ~lastOp.posted)

\* C13: setTrackData called with missing data or with an empty feature
\* sequence returns false, leaves the track, the time range, the duration,
\* the elapsed time and the playing state as they were, and posts no request
\* to the worker.
C13_InvalidTrackRejected ==
    [][(lastOp'.op = "setTrackData" /\ lastOp'.arg <= 0) =>
          /\ ~lastOp'.ok
          /\ ~lastOp'.posted
          /\ UNCHANGED <<features, timeRange, duration, currentTime,
                         isPlaying, toWorker>>]_vars

\* C13 witness: an empty feature sequence was refused while a track was
\* playing, part way through
C13_Witness ==
    /\ lastOp.op = "setTrackData"
    /\ lastOp.arg = 0
    /\ ~lastOp.ok
    /\ isPlaying
    /\ Len(features) > 1
    /\ currentTime > 0

C15_SeedPose ==
    [][(/\ lastOp'.op = "processPosition"
        /\ estimator = FreshState
        /\ ~IsInterpolation(lastOp'.position)) =>
          LET fix == lastOp'.position
              pose == lastOp'.pose
          IN  /\ pose.position.lng = fix.lng
              /\ pose.position.lat = fix.lat
              /\ pose.bearing = IF "bearing" \in DOMAIN fix THEN fix.bearing
                                ELSE Zero
              /\ pose.speed = Zero
              /\ estimator'.velocity = ZeroVector
              /\ estimator'.acceleration = ZeroVector
              /\ estimator'.lastTimestamp = lastOp'.timestamp]_vars

\* C16: on a worker that holds a position, a raw fix whose timestamp is not
\* greater than lastTimestamp changes nothing in the state (position,
\* velocity, acceleration, bearing, speed, lastTimestamp, lastValidBearing)
\* and is answered with the pose the worker had before.
C16_StaleFixAbsorbed ==
    [][(/\ lastOp'.op = "processPosition"
        /\ ~IsInterpolation(lastOp'.position)
        /\ estimator.position # NoPosition
        /\ lastOp'.timestamp <= estimator.lastTimestamp) =>
          /\ estimator' = estimator
          /\ lastOp'.pose = Pose(estimator)]_vars

\* a raw fix older than the moving worker's lastTimestamp has been answered
C16_Witness ==
    /\ lastOp.op = "processPosition"
    /\ ~IsInterpolation(lastOp.position)
    /\ lastOp.timestamp < estimator.lastTimestamp
    /\ estimator.speed # Zero
    /\ lastOp.pose = Pose(estimator)

\* C17: an interpolation request leaves velocity, acceleration, speed and
\* lastValidBearing of the worker as they were, sets lastTimestamp to the
\* timestamp of the message, and sets position and bearing to what a worker
\* as constructed computes for the same request: nothing of the prior state
\* enters the result.
C17_InterpolationOverwrites ==
    [][(/\ lastOp'.op = "processPosition"
        /\ IsInterpolation(lastOp'.position)) =>
          /\ estimator'.velocity = estimator.velocity
          /\ estimator'.acceleration = estimator.acceleration
          /\ estimator'.speed = estimator.speed
          /\ estimator'.lastValidBearing = estimator.lastValidBearing
          /\ estimator'.lastTimestamp = lastOp'.timestamp
          /\ \E geo \in GeoOutcomes(FreshState, lastOp'.position) :
                 LET fresh == ProcessPosition(FreshState, lastOp'.position,
                                              lastOp'.timestamp, geo)
                 IN  /\ estimator'.position = fresh.position
                     /\ estimator'.bearing = fresh.bearing]_vars

\* an interpolation request has been answered by a worker whose speed,
\* velocity, acceleration and lastValidBearing are not the constructor's
C17_Witness ==
    /\ lastOp.op = "processPosition"
    /\ IsInterpolation(lastOp.position)
    /\ estimator.speed # Zero
    /\ estimator.velocity # ZeroVector
    /\ estimator.acceleration # ZeroVector
    /\ estimator.lastValidBearing # Zero
    /\ estimator.lastTimestamp = lastOp.timestamp

\* a and b differ by a whole multiple of 360
CongruentMod360(a, b) == FDiv(FSub(a, b), R(360)).den = 1

\* the signed differences target - source along a shorter rotational path
ShorterPaths(source, target) ==
    {d \in {FSub(target, source), FSub(FSub(target, source), R(360)),
            FAdd(FSub(target, source), R(360))} : ~FLess(R(180), FAbs(d))}

\* C18: for source and target bearings in [0,360) and t in [0,1] an
\* interpolation request is answered with a bearing congruent (mod 360) to
\* source + d*t, d being target - source along the shorter rotational path;
\* t = 0 gives the source bearing and t = 1 the target bearing.
C18_BearingInterpolation ==
    lastOp.op = "interpolation" =>
        LET source == lastOp.position.bearing
            target == lastOp.position.targetBearing
            t == lastOp.position.t
            bearing == lastOp.pose.bearing
        IN  /\ \E d \in ShorterPaths(source, target) :
                   CongruentMod360(bearing, FAdd(source, FMul(d, t)))
            /\ t = Zero => bearing = source
            /\ t = R(1) => bearing = target

\* 0 <= bearing < 360
InHalfOpenRange(bearing) == ~FLess(bearing, Zero) /\ FLess(bearing, R(360))

\* C19: for current and target bearings in [0,360) smoothBearing applies a
\* difference d congruent to target - current (mod 360) with |d| <= 180 and
\* returns current + d * 0.75 brought into [0,360); from 350 toward 10 it
\* returns 5.
C19_SmoothBearingShorterPath ==
    lastOp.op = "smoothBearing" =>
        /\ \E d \in ShorterPaths(lastOp.current, lastOp.target) :
               CongruentMod360(lastOp.result,
                               FAdd(lastOp.current, FMul(d, bearingSmoothing)))
        /\ InHalfOpenRange(lastOp.result)
        /\ (lastOp.current = R(350) /\ lastOp.target = R(10)) =>
               lastOp.result = R(5)

\* C20: for every input d, negative values and whole multiples of 360
\* included, normalizeBearing(d) lies in [0,360) and equals
\* normalizeBearing(d + 360).
C20_NormalizeBearing ==
    lastOp.op = "normalizeBearing" =>
        /\ InHalfOpenRange(lastOp.result)
        /\ lastOp.result = NormalizeBearing(FAdd(lastOp.arg, R(360)))

\* C21: every pose the worker answers with, after any sequence of raw fixes
\* and interpolation requests whose bearings lie in [0,360], has its bearing
\* in [0,360) and a speed of at least 0.
C21_PoseInRange ==
    lastOp.op = "processPosition" =>
        /\ InHalfOpenRange(lastOp.pose.bearing)
        /\ ~FLess(lastOp.pose.speed, Zero)

\* the evaluations of the log that changed the tier
TierChanges(log) == {i \in 1 .. Len(log) : log[i].before # log[i].after}

PoorPerformance(entry) ==
    \/ FLess(entry.avgFps, fpsThreshold.min)
    \/ FLess(frameTimeThreshold.critical, entry.avgFrameTime)

\* the averages of an evaluation call for a step up
GoodPerformance(entry) ==
    /\ ~PoorPerformance(entry)
    /\ FLess(fpsThreshold.target, entry.avgFps)
    /\ FLess(entry.avgFrameTime, frameTimeThreshold.warning)

\* the place of a tier in the order ultra, high, medium, low
TierRank(tier) ==
    CASE tier = "ultra" -> 1 [] tier = "high" -> 2 [] tier = "medium" -> 3
      [] tier = "low" -> 4

Tiers == {"ultra", "high", "medium", "low"}

\* C23: every evaluation moves the tier by at most one place in the order
\* ultra, high, medium, low; a step down at low leaves it at low and a step
\* up at ultra leaves it at ultra; the current tier is one of the four.
C23_OneTierPerEvaluation ==
    /\ monitor.currentQuality \in Tiers
    /\ \A i \in 1 .. Len(monitorLog) :
           LET entry == monitorLog[i]
           IN  /\ entry.after \in Tiers
               /\ TierRank(entry.after) - TierRank(entry.before) \in {-1, 0, 1}
               /\ PoorPerformance(entry) =>
                      TierRank(entry.after) =
                          Min(TierRank(entry.before) + 1, 4)
               /\ GoodPerformance(entry) =>
                      TierRank(entry.after) =
                          Max(TierRank(entry.before) - 1, 1)

\* one behaviour has stepped up at ultra, stepped down through every tier
\* and stepped down at low
C23_Witness ==
    /\ \E i \in 1 .. Len(monitorLog) :
           /\ GoodPerformance(monitorLog[i])
           /\ monitorLog[i].before = "ultra"
           /\ monitorLog[i].after = "ultra"
    /\ \E i \in 1 .. Len(monitorLog) :
           /\ PoorPerformance(monitorLog[i])
           /\ monitorLog[i].before = "low"
           /\ monitorLog[i].after = "low"
    /\ \E i \in 1 .. Len(monitorLog) :
           monitorLog[i].before = "ultra" /\ monitorLog[i].after = "high"

\* C24: a quality-change notification is emitted exactly when the tier
\* changes: an evaluation that changes the tier emits one notification, and
\* it carries the new tier, different from the tier before; an evaluation
\* whose target is the current tier emits none.
C24_NotifiedOnChangeOnly ==
    \A i \in 1 .. Len(monitorLog) :
        LET entry == monitorLog[i]
        IN  /\ entry.after # entry.before => entry.notified = <<entry.after>>
            /\ entry.after = entry.before => entry.notified = <<>>
            /\ \A k \in 1 .. Len(entry.notified) :
                   entry.notified[k] # entry.before

\* poor performance has been evaluated at low, after a notified change
C24_Witness ==
    /\ \E i \in 1 .. Len(monitorLog) :
           /\ PoorPerformance(monitorLog[i])
           /\ monitorLog[i].before = "low"
           /\ monitorLog[i].notified = <<>>
    /\ \E i \in 1 .. Len(monitorLog) : monitorLog[i].notified = <<"low">>

\* C25: after every frame sample the windows of frame times and of FPS
\* values hold at most 60 samples each, and they are the latest ones: the
\* oldest sample is the one evicted.
C25_RollingWindow ==
    LET n == Len(monitorLog)
        kept == Min(n, 60)
    IN  /\ Len(monitor.frameTime.history) = kept
        /\ Len(monitor.fps.history) = kept
        /\ \A k \in 1 .. kept :
               LET sample == monitorLog[n - kept + k].frameTime
               IN  /\ monitor.frameTime.history[k] = sample
                   /\ monitor.fps.history[k] = Frac(1000, sample)

\* more than 60 samples have been taken and the window holds both kinds
C25_Witness ==
    /\ Len(monitorLog) > 60
    /\ monitorLog[1].frameTime # monitorLog[Len(monitorLog)].frameTime
    /\ monitor.frameTime.history[1] # monitor.frameTime.history[60]

\* C26: the controller calls map.easeTo only while it handles a worker
\* response with the camera lock set at that moment; a response handled
\* while the lock is off moves no camera, whatever the lock was when the
\* request was sent; every easeTo call has duration 0.
C26_CameraOnlyWhenLocked ==
    [][/\ lastOp'.easeTo # <<>> =>
              /\ lastOp'.op = "handleWorkerMessage"
              /\ isLocked
              /\ \A k \in 1 .. Len(lastOp'.easeTo) :
                     lastOp'.easeTo[k].duration = 0
       /\ (lastOp'.op = "handleWorkerMessage" /\ ~isLocked) =>
              lastOp'.easeTo = <<>>]_vars

\* a response has been rendered with the lock off, and no camera command
C26_Witness ==
    /\ lastOp.op = "handleWorkerMessage"
    /\ lastOp.rendered
    /\ ~isLocked
    /\ lastOp.easeTo = <<>>

\* the state of the controller other than camera.isLocked
controllerButLock ==
    <<isPlaying, currentTime, duration, speed, sinceFrame, features, timeRange,
      frameId, workerAlive, appAnimation, rafPending, toWorker, fromWorker>>

\* C27: camera.offset is assigned only when toggleCameraLock turns the lock
\* on; turning it off changes the lock flag and keeps the offset, and no
\* frame, worker response, seek, speed change, track load or other
\* operation assigns the offset.
C27_OffsetCapturedOnEngage ==
    [][/\ lastOp'.offset # <<>> =>
              /\ lastOp'.op = "toggleCameraLock"
              /\ ~isLocked
              /\ isLocked'
       /\ (lastOp'.op = "toggleCameraLock" /\ isLocked) =>
              /\ ~isLocked'
              /\ lastOp'.offset = <<>>
              /\ UNCHANGED controllerButLock]_vars

\* the lock has been turned on with an offset captured
C27_Witness ==
    /\ lastOp.op = "toggleCameraLock"
    /\ isLocked
    /\ lastOp.offset # <<>>
    /\ \A k \in 1 .. Len(lastOp.offset) : lastOp.offset[k] \in Offsets

\* C28: after a speed change handled while the camera is locked, altitude =
\* minAltitude + (maxAltitude - minAltitude) * min(speed, 4) / 4: a linear
\* blend that stays within [200, 1000] and is 1000 for every speed from 4 on.
C28_AltitudeBlend ==
    (/\ lastOp.op = "handleSpeedChange"
     /\ cameraController.isLocked
     /\ FLess(Zero, lastOp.speed)) =>
        /\ cameraController.altitude =
               FAdd(R(200), FDiv(FMul(R(800), FMin(lastOp.speed, R(4))), R(4)))
        /\ ~FLess(cameraController.altitude, R(200))
        /\ ~FLess(R(1000), cameraController.altitude)
        /\ ~FLess(lastOp.speed, R(4)) => cameraController.altitude = R(1000)

\* the samples of a queue of messages
Samples(queue) == [i \in 1 .. Len(queue) |-> queue[i].sample]

\* the requests sent and not yet rendered, oldest first
Outstanding == Samples(fromWorker) \o Samples(toWorker)

\* C29: every frame advance made while playing sends exactly one request to
\* the worker; every response that is not an error makes exactly one
\* renderer update, and the updates are made in the order in which the
\* requests were sent: each renders the oldest request not yet rendered.
C29_OneRequestOneUpdateInOrder ==
    [][/\ (lastOp'.op = "animate" /\ isPlaying) =>
              /\ lastOp'.posted
              /\ Len(toWorker') = Len(toWorker) + 1
              /\ Outstanding' =
                     Append(Outstanding, toWorker'[Len(toWorker')].sample)
       /\ (lastOp'.op = "handleWorkerMessage" /\ lastOp'.ok) =>
              /\ lastOp'.rendered
              /\ Head(fromWorker).sample = Head(Outstanding)
              /\ Outstanding' = Tail(Outstanding)
       /\ lastOp'.rendered => lastOp'.op = "handleWorkerMessage"
       /\ lastOp'.op = "worker" => Outstanding' = Outstanding]_vars

\* C30: a message whose position is missing is answered by the worker with
\* an error response and leaves every field of the worker's state as it
\* was; for an error response the controller makes no renderer update and
\* no camera update.
C30_NullPositionRejected ==
    [][/\ (lastOp'.op = "onmessage" /\ lastOp'.position = NoPosition) =>
              /\ lastOp'.response = [error |-> TRUE]
              /\ estimator' = estimator
       /\ (lastOp'.op = "handleWorkerMessage" /\ lastOp'.response.error) =>
              /\ lastOp'.applied = <<>>
              /\ lastOp'.easeTo = <<>>]_vars

\* a worker that holds a pose has rejected a message without a position,
\* and a controller with the camera locked has handled the error response
C30_Witness ==
    /\ lastOp.op = "handleWorkerMessage"
    /\ lastOp.position = NoPosition
    /\ lastOp.response.error
    /\ lastOp.locked
    /\ estimator.position # NoPosition

\* the planar linear interpolation p1 + (p2 - p1) * t of one coordinate
Planar(c1, c2, t) == FAdd(c1, FMul(FSub(c2, c1), t))

\* C31: when the dot product of the two unit vectors exceeds 0.9999,
\* slerpPosition returns the planar linear interpolation of lng and lat; for
\* two identical points it returns that point for every t in [0, 1], through
\* the planar branch, which divides by nothing.
C31_SlerpFallback ==
    lastOp.op = "slerpPosition" =>
        /\ lastOp.near =>
               lastOp.result =
                   [lng |-> Planar(lastOp.pos1.lng, lastOp.pos2.lng, lastOp.t),
                    lat |-> Planar(lastOp.pos1.lat, lastOp.pos2.lat, lastOp.t)]
        /\ lastOp.pos1 = lastOp.pos2 =>
               /\ lastOp.near
               /\ lastOp.result = lastOp.pos1

\* slerpPosition has been called on two identical points away from the
\* origin with a t strictly inside the interval
C31_Witness ==
    /\ lastOp.op = "slerpPosition"
    /\ lastOp.pos1 = lastOp.pos2
    /\ lastOp.pos1 = Point(1, 2)
    /\ lastOp.t = [num |-> 1, den |-> 4]
    /\ lastOp.result = Point(1, 2)

\* C32: in every reachable state of the controller, isPlaying implies that
\* an animate frame callback is pending.
C32_PlayingHasFrame == isPlaying => rafPending # {}

\* C33: time spent paused never advances elapsed.  While the clock is not
\* playing, neither a frame callback nor the passing of time changes
\* currentTime; play() makes its own time the reference of the next frame,
\* whatever time has passed since the last frame before it; and an advance
\* adds the time since that reference times the speed, up to the end clamp.
C33_PausedTimeNotCounted ==
    [][/\ (lastOp'.op \in {"animate", "tick"} /\ ~isPlaying) =>
              currentTime' = currentTime
       /\ (lastOp'.op = "play" /\ lastOp'.ok) => sinceFrame' = 0
       /\ (lastOp'.op = "animate" /\ isPlaying) =>
              currentTime' = Min(duration, currentTime + sinceFrame * speed)]_vars

\* play() in the middle of a run: the clock has advanced, the end is not
\* reached, and the next frame will measure its time from this play()
C33_Witness ==
    /\ lastOp.op = "play"
    /\ lastOp.ok
    /\ isPlaying
    /\ 0 < currentTime
    /\ currentTime < duration
    /\ sinceFrame = 0
    /\ rafPending # {}

\* the operations that end or restart a run from outside
Interventions ==
    {"play", "pause", "seekTo", "setSpeed", "setTrackData", "processData",
     "cleanup"}

\* C34: with frames delivered, time passing and a positive speed, a clock
\* that is playing eventually stands at the end of the track, not playing,
\* unless an operation from outside intervenes first.
C34_RunCompletes ==
    (isPlaying /\ speed > 0) ~>
        \/ ~isPlaying /\ currentTime = duration
        \/ lastOp.op \in Interventions

\* C35: under any interleaving of the operations and the frame callbacks,
\* at most one animate callback is pending.
C35_OneFramePending == Cardinality(rafPending) <= 1

\* play() has been called at the end of a run of a track with a positive
\* duration, and one callback is pending
C35_Witness ==
    /\ lastOp.op = "play"
    /\ lastOp.ok
    /\ duration > 0
    /\ currentTime = duration
    /\ Cardinality(rafPending) = 1

C37_MirrorFollowsClock == appAnimation.isPlaying = isPlaying

\* C38: whenever the camera controller is locked, its altitude and its
\* transition duration are the values that the most recent playback speed
\* determines, also when that speed was set while the camera was unlocked.
C38_LockedFollowsSpeed ==
    (/\ cameraController.isLocked
     /\ cameraController.currentSpeed # Undefined
     /\ FLess(Zero, cameraController.currentSpeed)) =>
        /\ cameraController.altitude = Altitude(cameraController.currentSpeed)
        /\ cameraController.duration =
               TransitionDuration(cameraController.currentSpeed)

====
